---- MODULE Spec2Model ----
(***************************************************************************)
(* Model of backend/services/video_generator.py (class VideoGenerator):    *)
(* the fal.ai error classifier, the upload/submit/retry loop, the          *)
(* temporary-file video transforms and generate_character_video.           *)
(***************************************************************************)
EXTENDS Integers, Sequences, FiniteSets, TLC

(***************************************************************************)
(* Text.  An error string is a sequence of text fragments (tokens); the    *)
(* string is their concatenation.  Substring tests are made on the atoms   *)
(* of the lower-cased text (LowerAtoms), so "content" is found inside      *)
(* "content_policy_violation" and inside a JSON object that carries it.    *)
(***************************************************************************)
ObjCPV == "{\"type\":\"content_policy_violation\",\"msg\":\"x\"}"

ObjEmpty == "{}"

ObjTokens == {ObjCPV, ObjEmpty}

JsonTokens == {"[", "]", ",", " ", "1", ObjCPV, ObjEmpty}

ProseTokens == {"[", "]", " ", "Some ", " detected", "nsfw", "Content",
                "content", "policy", "violation", "timeout"}

\* Bounds on the length (in tokens) of the error strings explored.
MaxJsonLen == 5

MaxProseLen == 4

\* The strings of at most n tokens over an alphabet.
Strings(alphabet, n) == UNION {[1..k -> alphabet] : k \in 0..n}

\* The error strings the classifier is applied to.
IsErrorString(s) ==
    \/ s \in Strings(JsonTokens, MaxJsonLen)
    \/ s \in Strings(ProseTokens, MaxProseLen)

\* str.lower() of one token, cut into atoms.
LowerAtoms(tok) ==
    CASE tok = "Some "     -> <<"some", " ">>
      [] tok = " detected" -> <<" ", "detected">>
      [] tok = "Content"   -> <<"content">>
      [] tok = "content policy" -> <<"content", " ", "policy">>
      [] tok = ObjCPV      -> <<"{\"type\":\"", "content", "_", "policy", "_",
                                "violation", "\",\"msg\":\"x\"}">>
      [] OTHER             -> <<tok>>

\* error_str.lower()
RECURSIVE Lower(_)
Lower(s) == IF s = <<>> THEN <<>> ELSE LowerAtoms(Head(s)) \o Lower(Tail(s))

\* Python's `needle in haystack` on atom sequences.
Contains(hay, needle) ==
    \E i \in 1..(Len(hay) - Len(needle) + 1) :
        SubSeq(hay, i, i + Len(needle) - 1) = needle

StartsWith(s, tok) == Len(s) >= 1 /\ s[1] = tok

EndsWith(s, tok) == Len(s) >= 1 /\ s[Len(s)] = tok

(***************************************************************************)
(* json.loads on a token string: JSON values are numbers (runs of "1"),    *)
(* objects (one object token) and arrays, with white space between them.   *)
(***************************************************************************)
RECURSIVE Trim(_)
Trim(s) ==
    IF s = <<>> THEN s
    ELSE IF Head(s) = " " THEN Trim(Tail(s))
    ELSE IF s[Len(s)] = " " THEN Trim(SubSeq(s, 1, Len(s) - 1))
    ELSE s

IsNumber(t) == Len(t) >= 1 /\ \A i \in 1..Len(t) : t[i] = "1"

RECURSIVE IsValue(_)
RECURSIVE IsElements(_)
IsArray(t) ==
    /\ Len(t) >= 2
    /\ t[1] = "["
    /\ t[Len(t)] = "]"
    /\ LET inner == SubSeq(t, 2, Len(t) - 1)
       IN  Trim(inner) = <<>> \/ IsElements(inner)

IsValue(s) ==
    LET t == Trim(s)
    IN  \/ IsNumber(t)
        \/ Len(t) = 1 /\ t[1] \in ObjTokens
        \/ IsArray(t)

IsElements(u) ==
    \/ IsValue(u)
    \/ \E i \in 1..Len(u) :
          /\ u[i] = ","
          /\ IsValue(SubSeq(u, 1, i - 1))
          /\ IsElements(SubSeq(u, i + 1, Len(u)))

\* json.loads(error_str) does not raise JSONDecodeError.
JsonLoads(s) == IsValue(s)

\* error_list[0] of a string that loads as a non-empty array: its tokens.
FirstElement(s) ==
    LET inner == SubSeq(s, 2, Len(s) - 1)
    IN  IF IsValue(inner) THEN Trim(inner)
        ELSE LET cut == CHOOSE i \in 1..Len(inner) :
                            /\ inner[i] = ","
                            /\ IsValue(SubSeq(inner, 1, i - 1))
                            /\ IsElements(SubSeq(inner, i + 1, Len(inner)))
             IN  Trim(SubSeq(inner, 1, cut - 1))

\* json.loads(error_str) is a list and is truthy (non-empty).
LoadsNonEmptyList(s) ==
    /\ IsArray(Trim(s))
    /\ Trim(SubSeq(Trim(s), 2, Len(Trim(s)) - 1)) # <<>>

IsDict(elem) == Len(elem) = 1 /\ elem[1] \in ObjTokens

\* first_error.get('type', '') and first_error.get('msg', '')
DictGet(elem, key) ==
    IF elem[1] = ObjCPV
    THEN (IF key = "type" THEN "content_policy_violation" ELSE "x")
    ELSE ""

(***************************************************************************)
(* VideoGenerator._parse_fal_error.  The result records what the call      *)
(* does: raises = "none" and the returned dict, or the exception raised.   *)
(***************************************************************************)
Classified(type, msg) == [raises |-> "none", type |-> type, msg |-> msg]

ClassifierRaised(kind) == [raises |-> kind, type |-> "", msg |-> ""]

\* Lines 144-157: the structured path is taken (it returns or raises).
StructuredPath(s) ==
    /\ StartsWith(s, "[")
    /\ EndsWith(s, "]")
    /\ JsonLoads(s)
    /\ LoadsNonEmptyList(s)

\* Lines 163-164.
KeywordScan(error_lower) ==
    \/ Contains(error_lower, <<"content", "_", "policy", "_", "violation">>)
    \/ (Contains(error_lower, <<"content">>) /\ Contains(error_lower, <<"policy">>))

ParseFalError(error_str) ==
    IF StructuredPath(error_str)
    THEN LET first_error == FirstElement(error_str)
         IN  IF IsDict(first_error)
             THEN Classified(DictGet(first_error, "type"), DictGet(first_error, "msg"))
             ELSE ClassifierRaised("AttributeError")
    ELSE IF KeywordScan(Lower(error_str))
         THEN Classified("content_policy_violation", error_str)
         ELSE Classified("unknown", error_str)

(***************************************************************************)
(* State of one call on a VideoGenerator and of its collaborators (the     *)
(* upload endpoint, the generation endpoint, the temporary directory).     *)
(***************************************************************************)
VARIABLES
    entry,         \* the public method called, "none" before the call
    prompt,        \* its prompt argument ("" when not given)
    duration,      \* duration passed to generate_video_from_image
    aspect_ratio,  \* aspect_ratio argument of the entry method
    max_retries,   \* max_retries of generate_video_from_image
    pc,            \* position of the call
    uploads,       \* number of fal_client.upload calls made
    image_url,     \* asset handle returned by the upload, "none" before
    attempt,       \* loop variable of the retry loop
    submissions,   \* arguments of every fal_client.subscribe call, in order
    history,       \* what every attempt met and how it was classified
    raised,        \* exception that reached the caller of the entry method
    returned,      \* value returned to the caller of the entry method
    tfun,          \* transform running: "trim_video", "add_letterbox_to_square"
    tstep,         \* position inside the transform
    start_time,    \* start_time argument of the transform, in tenths of a second
    square_crop,   \* square_crop argument of trim_video
    transform_calls, \* every transform call made: function and arguments
    frame,         \* clip.size of the decoded video, <<width, height>>
    crop,          \* arguments of clip.crop (offsets doubled), NoCrop before
    files,         \* temporary files of this call present on disk
    handler,       \* API handler serving a request, "none" outside a request
    hstep,         \* position inside the handler
    failure,       \* handler step that failed, "none" if none did
    analysis,      \* LLM analysis of PageAnalyzer.analyze_page: "none", "ok", "failed"
    lookups,       \* outcome of every ImageScraper.extract_images call, in order
    response,      \* HTTP response of the handler, NoResponse before
    gemini_calls,  \* outcome of every invoke_gemini call, in order
    sleeps,        \* argument of every time.sleep call, in order
    last_error,    \* last_error of invoke_gemini_with_retry
    error_msg,     \* message of the exception invoke_gemini_with_retry raised
    env_key,       \* os.environ['FAL_KEY'] of the process
    instances,     \* the VideoGenerator instances of the process and their calls
    disk,          \* temporary files of the process, each with its creator
    err,           \* classifier input (classifier specification)
    parsed         \* classifier output (classifier specification)

callVars == <<entry, prompt, duration, aspect_ratio, max_retries>>

genVars == <<uploads, image_url, attempt, submissions, history>>

transformVars == <<tfun, tstep, start_time, square_crop, transform_calls, frame, crop, files>>

classifyVars == <<err, parsed>>

handlerVars == <<handler, hstep, failure, analysis, lookups, response>>

geminiVars == <<gemini_calls, sleeps, last_error, error_msg>>

instanceVars == <<env_key, instances, disk>>

serviceVars == <<handlerVars, geminiVars, instanceVars>>

vars == <<callVars, pc, genVars, raised, returned, transformVars, classifyVars, serviceVars>>

\* Largest max_retries explored (0 included: the loop body never runs).
MaxRetries == 3

\* Longest backend error text explored, in tokens.
MaxBackendErrLen == 3

\* Longest text of a response without video URL explored, in tokens.
MaxResponseLen == 1

\* Largest width and height of the small video frames explored.
MaxFrameSide == 3

\* Mutation of DefaultMaxRetries: the default allows one retry.
DefaultMaxRetriesWithRetry == 1 + 1

DefaultMaxRetries == 1

DefaultDuration == 4

CharacterDuration == 12

\* start_time=0.3 seconds, in tenths of a second.
StartTrimTenths == 3

\* duration=4 passed by generate_logo_video.
LogoDuration == 4

LogoPrompt == "Animate this logo with cool, dynamic effects while keeping the core design intact. Add subtle lighting changes, particle effects, or a sleek reveal."

DefaultCharacterPrompt == "Make this character dance with lively and fun movements. Add energetic body language and natural motion."

\* aspect_ratio values of generate_character_video, and of
\* generate_video_from_image ("16:9" or "9:16").
AspectRatios == {"16:9", "9:16", "1:1"}

BackendAspectRatios == {"16:9", "9:16"}

Durations == {DefaultDuration, 8, CharacterDuration}

\* duration arguments tried on generate_video_from_image: the parameter is
\* an int the method passes on as it is, so one other value is tried too.
DurationsTried == Durations \cup {5}

\* clip.size values: small frames of every shape, and the two HD frames.
FrameSizes ==
    ((1..MaxFrameSide) \X (1..MaxFrameSide)) \cup {<<1080, 1920>>, <<1920, 1080>>}

NoFrame == <<0, 0>>

NoCrop == [x1_twice |-> 0, y1_twice |-> 0, width |-> 0, height |-> 0]

Prompts == {"", "custom prompt"}

\* start_time values tried on the transforms called directly.
StartTimes == {0, StartTrimTenths}

BackendTokens == {"[", "]", "1", ObjCPV, "content policy", "timeout"}

ResponseTokens == {"content policy", "timeout"}

\* str(e) of the exceptions fal_client.subscribe raises.
BackendErrors == Strings(BackendTokens, MaxBackendErrLen)

\* Text (repr) of the responses fal_client.subscribe returns without a video URL.
ResponseTexts == Strings(ResponseTokens, MaxResponseLen)

VideoUrlNotFound == "Video URL not found in response. Full response: "

NoneTypeHasNoGet == "'NoneType' object has no attribute 'get'"

\* What fal_client.subscribe does on one call.
BackendOutcomes ==
    [kind : {"raise"}, text : BackendErrors]
    \cup [kind : {"result_no_url"}, text : ResponseTexts]
    \cup [kind : {"result_url", "result_video_none"}, text : {<<>>}]

NotParsed == [raises |-> "pending", type |-> "", msg |-> ""]

NoReturn == [status |-> "none"]

NoResponse == [status |-> 0]

NoMessage == <<>>

\* Two VideoGenerator objects of one process.
Instances == {"g1", "g2"}

\* fal_key arguments of the constructor; "" is the absent key.
FalKeys == {"", "key A", "key B"}

NotConstructed ==
    [key |-> "none", ipc |-> "new", credentials |-> <<>>, asset |-> "none",
     submitted |-> "none", paths |-> {}]

\* Names tempfile.NamedTemporaryFile can give to a file.
MaxTempNames == 3

\* Errors of invoke_gemini, as str(e).
GeminiErrors == {"timeout", "HTTP 500"}

Idle ==
    /\ entry = "none"
    /\ prompt = ""
    /\ duration = 0
    /\ aspect_ratio = "none"
    /\ max_retries = 0
    /\ pc = "idle"
    /\ uploads = 0
    /\ image_url = "none"
    /\ attempt = 0
    /\ submissions = <<>>
    /\ history = <<>>
    /\ raised = "none"
    /\ returned = NoReturn
    /\ tfun = "none"
    /\ tstep = "none"
    /\ start_time = 0
    /\ square_crop = FALSE
    /\ transform_calls = <<>>
    /\ frame = NoFrame
    /\ crop = NoCrop
    /\ files = {}
    /\ handler = "none"
    /\ hstep = "none"
    /\ failure = "none"
    /\ analysis = "none"
    /\ lookups = <<>>
    /\ response = NoResponse
    /\ gemini_calls = <<>>
    /\ sleeps = <<>>
    /\ last_error = "None"
    /\ error_msg = NoMessage
    /\ env_key = "none"
    /\ instances = [i \in Instances |-> NotConstructed]
    /\ disk = {}

Init == Idle /\ err = <<>> /\ parsed = NotParsed

(***************************************************************************)
(* Entry points.                                                           *)
(***************************************************************************)
\* generate_video_from_image(image_data, prompt, duration, aspect_ratio, max_retries)
CallGenerateVideoFromImage(p, d, a, m) ==
    /\ pc = "idle"
    /\ entry' = "generate_video_from_image"
    /\ prompt' = p
    /\ duration' = d
    /\ aspect_ratio' = a
    /\ max_retries' = m
    /\ pc' = "upload"
    /\ UNCHANGED <<genVars, raised, returned, transformVars, classifyVars, serviceVars>>

\* generate_character_video(image_data, prompt, aspect_ratio): lines 398-410.
CallGenerateCharacterVideo(p, a) ==
    /\ pc = "idle"
    /\ entry' = "generate_character_video"
    /\ prompt' = IF p = "" THEN DefaultCharacterPrompt ELSE p
    /\ duration' = CharacterDuration
    /\ aspect_ratio' = a
    /\ max_retries' = DefaultMaxRetries
    /\ pc' = "upload"
    /\ UNCHANGED <<genVars, raised, returned, transformVars, classifyVars, serviceVars>>

\* generate_logo_video(image_data), lines 373-384: the call of
\* generate_video_from_image(image_data, prompt=prompt, duration=4), with the
\* defaults aspect_ratio="16:9" and max_retries=1.
CallGenerateLogoVideo ==
    /\ pc = "idle"
    /\ entry' = "generate_logo_video"
    /\ prompt' = LogoPrompt
    /\ duration' = LogoDuration
    /\ aspect_ratio' = "16:9"
    /\ max_retries' = DefaultMaxRetries
    /\ pc' = "upload"
    /\ UNCHANGED <<genVars, raised, returned, transformVars, classifyVars, serviceVars>>

\* Mutation of ActualRatio: the requested ratio is passed on as it is.
ActualRatioUnchanged(a) == a

\* actual_ratio = "9:16" if aspect_ratio == "1:1" else aspect_ratio
ActualRatio(a) == IF a = "1:1" THEN "9:16" ELSE a

\* The aspect_ratio parameter generate_video_from_image runs with.
GenAspectRatio ==
    IF entry = "generate_character_video" THEN ActualRatio(aspect_ratio) ELSE aspect_ratio

(***************************************************************************)
(* generate_video_from_image                                               *)
(***************************************************************************)
\* Mutation of UploadImage: a failed upload falls through to the retry loop.
UploadImageFallsThrough ==
    /\ pc = "upload"
    /\ uploads' = uploads + 1
    /\ \E ok \in BOOLEAN :
          IF ok
          THEN /\ image_url' = "asset"
               /\ pc' = "loop"
               /\ UNCHANGED <<raised>>
          ELSE /\ pc' = "loop"
               /\ UNCHANGED <<image_url, raised>>
    /\ UNCHANGED <<callVars, attempt, submissions, history, returned,
                   transformVars, classifyVars, serviceVars>>

\* Line 47 and _upload_image: one fal_client.upload call; a failure is
\* re-raised as a plain Exception, outside every try block of the callers.
UploadImage ==
    /\ pc = "upload"
    /\ uploads' = uploads + 1
    /\ \E ok \in BOOLEAN :
          IF ok
          THEN /\ image_url' = "asset"
               /\ pc' = "loop"
               /\ UNCHANGED <<raised>>
          ELSE /\ raised' = "Exception"
               /\ pc' = "done"
               /\ UNCHANGED <<image_url>>
    /\ UNCHANGED <<callVars, attempt, submissions, history, returned,
                   transformVars, classifyVars, serviceVars>>

\* Mutation of Payload: a retry submits a handle derived again.
PayloadRederived ==
    [image_url |-> IF attempt = 0 THEN image_url ELSE "asset again", prompt |-> prompt,
     duration |-> duration, resolution |-> "auto", aspect_ratio |-> GenAspectRatio]

\* arguments={...} of fal_client.subscribe, lines 63-69.
Payload ==
    [image_url |-> image_url, prompt |-> prompt, duration |-> duration,
     resolution |-> "auto", aspect_ratio |-> GenAspectRatio]

\* Mutation of IsRetryable: every classified failure is retried.
IsRetryableAnyError(error_type) == error_type \in {"content_policy_violation", "unknown"}

\* Line 96.
IsRetryable(error_type) == error_type = "content_policy_violation"

\* Mutation of IsLastAttempt: no attempt is taken to be the last.
IsLastAttemptNever(a, m) == FALSE

\* Mutation of IsLastAttempt: the last index is taken to be max_retries.
IsLastAttemptOffByOne(a, m) == a = m

\* Line 100.
IsLastAttempt(a, m) == a = m - 1

\* Mutation of ContinueLoop: a retry starts over from the upload.
ContinueLoopReupload ==
    /\ attempt' = attempt + 1
    /\ pc' = "upload"
    /\ UNCHANGED <<raised, returned, uploads, image_url>>

\* Line 116, `continue`: the next iteration of the for loop.
ContinueLoop ==
    /\ attempt' = attempt + 1
    /\ pc' = "loop"
    /\ UNCHANGED <<raised, returned, uploads, image_url>>

\* A raise that leaves generate_video_from_image (it is in no try block of
\* generate_character_video or generate_logo_video).
RaiseFromGenerate(kind) ==
    /\ raised' = kind
    /\ pc' = "done"
    /\ UNCHANGED <<attempt, returned, uploads, image_url>>

\* Lines 84-87: the dict goes to the caller of generate_video_from_image,
\* which is generate_character_video (line 405) or the caller of the entry.
ReturnFromGenerate ==
    /\ UNCHANGED <<attempt, raised, uploads, image_url>>
    /\ IF entry = "generate_character_video"
       THEN /\ pc' = "post"
            /\ returned' = returned
       ELSE /\ pc' = "done"
            /\ returned' = [status |-> "success", video_url |-> "video"]

\* Lines 89-120: the except block, given str(e).
HandleException(kind, error_str) ==
    LET parsed_error == ParseFalError(error_str)
    IN  IF parsed_error.raises # "none"
        THEN /\ history' = Append(history, [met |-> kind, class |-> parsed_error.raises])
             /\ RaiseFromGenerate(parsed_error.raises)
        ELSE /\ history' = Append(history, [met |-> kind, class |-> parsed_error.type])
             /\ IF IsRetryable(parsed_error.type)
                THEN IF IsLastAttempt(attempt, max_retries)
                     THEN RaiseFromGenerate("ContentPolicyViolationError")
                     ELSE ContinueLoop
                ELSE RaiseFromGenerate("VideoGenerationError")

\* One iteration of the retry loop, lines 50-120.
Attempt(outcome) ==
    /\ pc = "loop"
    /\ attempt < max_retries
    /\ submissions' = Append(submissions, Payload)
    /\ CASE outcome.kind = "result_url" ->
              /\ history' = Append(history, [met |-> "result_url", class |-> "success"])
              /\ ReturnFromGenerate
         [] outcome.kind = "result_no_url" ->
              HandleException(outcome.kind, <<VideoUrlNotFound>> \o outcome.text)
         [] outcome.kind = "result_video_none" ->
              HandleException(outcome.kind, <<NoneTypeHasNoGet>>)
         [] outcome.kind = "raise" ->
              HandleException(outcome.kind, outcome.text)
    /\ UNCHANGED <<callVars, transformVars, classifyVars, serviceVars>>

\* Line 123: the for loop ran out of iterations.
LoopExhausted ==
    /\ pc = "loop"
    /\ ~(attempt < max_retries)
    /\ raised' = "VideoGenerationError"
    /\ pc' = "done"
    /\ UNCHANGED <<callVars, genVars, returned, transformVars, classifyVars, serviceVars>>

(***************************************************************************)
(* trim_video and add_letterbox_to_square                                  *)
(***************************************************************************)
\* One call of a transform: the function and its arguments.
TransformCall(fn, st, sq) == [fn |-> fn, start_time |-> st, square_crop |-> sq]

\* trim_video(video_url, start_time, square_crop) called directly.
CallTrimVideo(st, sq) ==
    /\ pc = "idle"
    /\ entry' = "trim_video"
    /\ tfun' = "trim_video"
    /\ start_time' = st
    /\ square_crop' = sq
    /\ transform_calls' = Append(transform_calls, TransformCall("trim_video", st, sq))
    /\ tstep' = "download"
    /\ pc' = "transform"
    /\ UNCHANGED <<prompt, duration, aspect_ratio, max_retries, genVars, raised,
                   returned, frame, crop, files, classifyVars, serviceVars>>

\* add_letterbox_to_square(video_url, start_time) called directly.
CallAddLetterboxToSquare(st) ==
    /\ pc = "idle"
    /\ entry' = "add_letterbox_to_square"
    /\ tfun' = "add_letterbox_to_square"
    /\ start_time' = st
    /\ transform_calls' =
           Append(transform_calls, TransformCall("add_letterbox_to_square", st, FALSE))
    /\ tstep' = "download"
    /\ pc' = "transform"
    /\ UNCHANGED <<prompt, duration, aspect_ratio, max_retries, genVars, raised,
                   returned, square_crop, frame, crop, files, classifyVars, serviceVars>>

\* Mutation of PostProcessCall: a "1:1" request goes through the letterbox.
PostProcessCallLetterbox(requested) ==
    IF requested = "1:1"
    THEN TransformCall("add_letterbox_to_square", StartTrimTenths, FALSE)
    ELSE TransformCall("trim_video", StartTrimTenths, FALSE)

\* Lines 412-445: the transform generate_character_video calls.  Both
\* branches call trim_video with start_time=0.3, and square_crop=True
\* exactly in the "1:1" branch.
PostProcessCall(requested) ==
    TransformCall("trim_video", StartTrimTenths, requested = "1:1")

\* generate_character_video, lines 412-445, after generate_video_from_image
\* returned: the call of the transform.
PostProcess ==
    /\ pc = "post"
    /\ tfun' = PostProcessCall(aspect_ratio).fn
    /\ start_time' = PostProcessCall(aspect_ratio).start_time
    /\ square_crop' = PostProcessCall(aspect_ratio).square_crop
    /\ transform_calls' = Append(transform_calls, PostProcessCall(aspect_ratio))
    /\ tstep' = "download"
    /\ pc' = "transform"
    /\ UNCHANGED <<callVars, genVars, raised, returned, frame, crop, files, classifyVars, serviceVars>>

\* An exception leaves the transform: generate_character_video turns every
\* Exception into VideoGenerationError (lines 452-454).
RaiseFromTransform(kind) ==
    /\ raised' = IF entry = "generate_character_video"
                 THEN "VideoGenerationError" ELSE kind
    /\ pc' = "done"
    /\ tstep' = "raised"
    /\ UNCHANGED returned

\* return video_data (lines 266, 349) and lines 431-435, 447-451.
ReturnFromTransform ==
    /\ returned' = IF entry = "generate_character_video"
                   THEN [status |-> "success", video_data |-> "bytes", trimmed |-> TRUE]
                   ELSE [status |-> "bytes"]
    /\ pc' = "done"
    /\ tstep' = "returned"
    /\ UNCHANGED raised

\* Lines 268-271 and 351-354: the except block of the transform.
ExceptBlock ==
    /\ files' = files \ {"tmp_input"}
    /\ RaiseFromTransform("Exception")

\* Lines 218-219 and 289-290: requests.get and raise_for_status, before the try.
Download ==
    /\ pc = "transform"
    /\ tstep = "download"
    /\ \E ok \in BOOLEAN :
          IF ok
          THEN /\ tstep' = "save"
               /\ UNCHANGED <<pc, raised, returned>>
          ELSE RaiseFromTransform("RequestException")
    /\ UNCHANGED <<callVars, genVars, tfun, start_time, square_crop, transform_calls, frame, crop, files, classifyVars, serviceVars>>

\* Lines 222-224 and 293-295: NamedTemporaryFile(delete=False) and write,
\* before the try; leaving the with block closes the file and keeps it.
SaveInput ==
    /\ pc = "transform"
    /\ tstep = "save"
    /\ \E o \in {"ok", "create_fails", "write_fails"} :
          CASE o = "ok" ->
                 /\ files' = files \cup {"tmp_input"}
                 /\ tstep' = "decode"
                 /\ UNCHANGED <<pc, raised, returned>>
            [] o = "create_fails" ->
                 /\ files' = files
                 /\ RaiseFromTransform("OSError")
            [] o = "write_fails" ->
                 /\ files' = files \cup {"tmp_input"}
                 /\ RaiseFromTransform("OSError")
    /\ UNCHANGED <<callVars, genVars, tfun, start_time, square_crop, transform_calls, frame,
                   crop, classifyVars, serviceVars>>

\* The step that follows the subclip (or the decode when start_time <= 0).
AfterSubclip(fn, sq) ==
    IF fn = "trim_video"
    THEN (IF sq THEN "crop" ELSE "mkoutput")
    ELSE "background"

\* Order of the clip operations, lines 228-242 and 299-323.
NextClipStep(fn, step, st, sq) ==
    CASE step = "decode"     -> (IF st > 0 THEN "subclip" ELSE AfterSubclip(fn, sq))
      [] step = "subclip"    -> AfterSubclip(fn, sq)
      [] step = "crop"       -> "mkoutput"
      [] step = "background" -> "composite"
      [] step = "composite"  -> "mkoutput"

\* Mutation of SquareSize: the longer side is taken.
SquareSizeMax(width, height) == IF width > height THEN width ELSE height

\* Line 237: square_size = min(width, height)
SquareSize(width, height) == IF width < height THEN width ELSE height

\* Lines 236-242, the arguments of clip.crop.  x_center = width / 2 and
\* x1 = x_center - square_size / 2 are halves of integers: the offsets are
\* kept doubled, x1_twice = 2 * x1 = width - square_size.
CropBox(width, height) ==
    LET square_size == SquareSize(width, height)
        x_center_twice == width
        y_center_twice == height
    IN  [x1_twice |-> x_center_twice - square_size,
         y1_twice |-> y_center_twice - square_size,
         width |-> square_size,
         height |-> square_size]

\* VideoFileClip, subclip, crop, ColorClip, CompositeVideoClip: inside the try.
\* VideoFileClip gives the clip its size; the crop step calls clip.crop.
ClipStep ==
    /\ pc = "transform"
    /\ tstep \in {"decode", "subclip", "crop", "background", "composite"}
    /\ \E ok \in BOOLEAN, size \in FrameSizes :
          IF ok
          THEN /\ tstep' = NextClipStep(tfun, tstep, start_time, square_crop)
               /\ frame' = IF tstep = "decode" THEN size ELSE frame
               /\ crop' = IF tstep = "crop" THEN CropBox(frame[1], frame[2]) ELSE crop
               /\ UNCHANGED <<pc, raised, returned, files>>
          ELSE /\ ExceptBlock
               /\ UNCHANGED <<frame, crop>>
    /\ UNCHANGED <<callVars, genVars, tfun, start_time, square_crop, transform_calls,
                   classifyVars, serviceVars>>

\* Lines 245-246 and 326-327: the output NamedTemporaryFile(delete=False).
MakeOutput ==
    /\ pc = "transform"
    /\ tstep = "mkoutput"
    /\ \E ok \in BOOLEAN :
          IF ok
          THEN /\ files' = files \cup {"tmp_output"}
               /\ tstep' = "encode"
               /\ UNCHANGED <<pc, raised, returned>>
          ELSE ExceptBlock
    /\ UNCHANGED <<callVars, genVars, tfun, start_time, square_crop, transform_calls, frame,
                   crop, classifyVars, serviceVars>>

\* Lines 248-255 and 329-336: write_videofile.
Encode ==
    /\ pc = "transform"
    /\ tstep = "encode"
    /\ \E ok \in BOOLEAN :
          IF ok
          THEN /\ tstep' = "readback"
               /\ UNCHANGED <<pc, raised, returned, files>>
          ELSE ExceptBlock
    /\ UNCHANGED <<callVars, genVars, tfun, start_time, square_crop, transform_calls, frame,
                   crop, classifyVars, serviceVars>>

\* Lines 258-259 and 339-340: open(output_path, 'rb') and read.
ReadBack ==
    /\ pc = "transform"
    /\ tstep = "readback"
    /\ \E ok \in BOOLEAN :
          IF ok
          THEN /\ tstep' = "cleanup"
               /\ UNCHANGED <<pc, raised, returned, files>>
          ELSE ExceptBlock
    /\ UNCHANGED <<callVars, genVars, tfun, start_time, square_crop, transform_calls, frame,
                   crop, classifyVars, serviceVars>>

\* Lines 262-266 and 343-349: close the clips, unlink both files, return.
Cleanup ==
    /\ pc = "transform"
    /\ tstep = "cleanup"
    /\ \E close_ok \in BOOLEAN :
          IF close_ok
          THEN /\ files' = (files \ {"tmp_input"}) \ {"tmp_output"}
               /\ ReturnFromTransform
          ELSE ExceptBlock
    /\ UNCHANGED <<callVars, genVars, tfun, start_time, square_crop, transform_calls, frame,
                   crop, classifyVars, serviceVars>>

(***************************************************************************)
(* The API handlers of app.py: /api/generate-videos and /api/analyze-page. *)
(***************************************************************************)
\* Outcomes of ImageScraper.extract_images: a character URL, no character
\* image on the page (character_url is None), or an exception.
LookupOutcomes == {"found", "not_found", "failed"}

\* jsonify({'error': ...}), code
ErrorResponse(code) ==
    [status |-> code, body |-> "error", error_type |-> "none", suggestions |-> FALSE,
     character_image_url |-> "absent"]

\* jsonify(result), 200; the analysis result has a character_image_url.
ResultResponse(character_image_url) ==
    [status |-> 200, body |-> "result", error_type |-> "none", suggestions |-> FALSE,
     character_image_url |-> character_image_url]

\* app.py lines 178-189.
PolicyResponse ==
    [status |-> 400, body |-> "error", error_type |-> "content_policy_violation",
     suggestions |-> TRUE, character_image_url |-> "absent"]

\* Mutation of GenerateVideosErrorResponse: one answer for every exception.
GenerateVideosErrorResponseGeneric(exc) == ErrorResponse(500)

\* The except clauses of the inner try, app.py lines 178-193.
GenerateVideosErrorResponse(exc) ==
    IF exc = "ContentPolicyViolationError" THEN PolicyResponse ELSE ErrorResponse(500)

\* The handler returns: the response and the step that failed, if any.
Respond(resp, failed_step) ==
    /\ response' = resp
    /\ failure' = failed_step
    /\ hstep' = "responded"

\* generate_videos, lines 108-124: the request is read; 400 if it has
\* neither page_url nor character_image_url.
GenerateVideosRequest(page_url, character_image_url, custom_prompt) ==
    /\ pc = "idle"
    /\ handler' = "generate_videos"
    /\ pc' = "handler"
    /\ prompt' = custom_prompt
    /\ IF ~page_url /\ ~character_image_url
       THEN Respond(ErrorResponse(400), "missing_input")
       ELSE /\ hstep' = IF character_image_url THEN "prepare" ELSE "scrape"
            /\ UNCHANGED <<response, failure>>
    /\ UNCHANGED <<entry, duration, aspect_ratio, max_retries, genVars, raised, returned,
                   transformVars, classifyVars, analysis, lookups, geminiVars,
                   instanceVars>>

\* Lines 133-142: the character image is looked up on the page; the call
\* is in the outer try only.
GenerateVideosScrape ==
    /\ handler = "generate_videos"
    /\ hstep = "scrape"
    /\ \E outcome \in LookupOutcomes :
          /\ lookups' = Append(lookups, outcome)
          /\ CASE outcome = "failed" -> Respond(ErrorResponse(500), "scrape")
               [] outcome = "not_found" -> Respond(ErrorResponse(400), "no_character_image")
               [] outcome = "found" ->
                    /\ hstep' = "prepare"
                    /\ UNCHANGED <<response, failure>>
    /\ UNCHANGED <<callVars, pc, genVars, raised, returned, transformVars, classifyVars,
                   handler, analysis, geminiVars, instanceVars>>

\* Lines 144-152: the services are constructed and, when the request has
\* product_info, the prompt is generated again (outer try only).
GenerateVideosPrepare ==
    /\ handler = "generate_videos"
    /\ hstep = "prepare"
    /\ \E product_info \in {"absent", "given", "malformed"} :
          IF product_info = "malformed"
          THEN /\ Respond(ErrorResponse(500), "regenerate_prompt")
               /\ UNCHANGED prompt
          ELSE /\ prompt' = IF product_info = "given" THEN "regenerated prompt" ELSE prompt
               /\ hstep' = "fetch_image"
               /\ UNCHANGED <<response, failure>>
    /\ UNCHANGED <<entry, duration, aspect_ratio, max_retries, pc, genVars, raised,
                   returned, transformVars, classifyVars, handler, analysis, lookups,
                   geminiVars, instanceVars>>

\* Lines 160-162: the image is downloaded, inside the inner try.
GenerateVideosFetchImage ==
    /\ handler = "generate_videos"
    /\ hstep = "fetch_image"
    /\ \E ok \in BOOLEAN :
          IF ok
          THEN /\ hstep' = "preprocess"
               /\ UNCHANGED <<response, failure>>
          ELSE Respond(GenerateVideosErrorResponse("RequestException"), "image_fetch")
    /\ UNCHANGED <<callVars, pc, genVars, raised, returned, transformVars, classifyVars,
                   handler, analysis, lookups, geminiVars, instanceVars>>

\* Lines 165-172: preprocess_image, then the call of
\* generate_character_video(processed_character, prompt=final_prompt).
GenerateVideosPreprocess ==
    /\ handler = "generate_videos"
    /\ hstep = "preprocess"
    /\ \E ok \in BOOLEAN :
          IF ok
          THEN /\ entry' = "generate_character_video"
               /\ prompt' = IF prompt = "" THEN DefaultCharacterPrompt ELSE prompt
               /\ duration' = CharacterDuration
               /\ aspect_ratio' = "16:9"
               /\ max_retries' = DefaultMaxRetries
               /\ pc' = "upload"
               /\ hstep' = "generating"
               /\ UNCHANGED <<response, failure>>
          ELSE /\ Respond(GenerateVideosErrorResponse("Exception"), "preprocess")
               /\ UNCHANGED <<callVars, pc>>
    /\ UNCHANGED <<genVars, raised, returned, transformVars, classifyVars, handler,
                   analysis, lookups, geminiVars, instanceVars>>

\* Lines 173-193: generate_character_video raised or returned.  After a
\* return the handler calls jsonify(video_result), a library call inside the
\* inner try whose failure is answered by `except Exception`.
GenerateVideosRespond ==
    /\ handler = "generate_videos"
    /\ hstep = "generating"
    /\ pc = "done"
    /\ IF raised # "none"
       THEN Respond(GenerateVideosErrorResponse(raised),
                    IF tfun = "none" THEN "generation" ELSE "post_processing")
       ELSE \E serialized \in BOOLEAN :
               IF serialized
               THEN Respond(ResultResponse("absent"), "none")
               ELSE Respond(GenerateVideosErrorResponse("TypeError"), "jsonify")
    /\ UNCHANGED <<callVars, pc, genVars, raised, returned, transformVars, classifyVars,
                   handler, analysis, lookups, geminiVars, instanceVars>>

\* analyze_page, lines 69-75: 400 if the request has no page_url.
AnalyzePageRequest(page_url) ==
    /\ pc = "idle"
    /\ handler' = "analyze_page"
    /\ pc' = "handler"
    /\ IF page_url
       THEN /\ hstep' = "analyzer"
            /\ UNCHANGED <<response, failure>>
       ELSE Respond(ErrorResponse(400), "missing_input")
    /\ UNCHANGED <<callVars, genVars, raised, returned, transformVars, classifyVars,
                   analysis, lookups, geminiVars, instanceVars>>

\* PageAnalyzer.analyze_page, lines 38-61: without secret key, or when the
\* page cannot be fetched, the result is {'error': ...}, which the handler
\* answers with 500 (app.py lines 83-85).
AnalyzerFetchPage ==
    /\ handler = "analyze_page"
    /\ hstep = "analyzer"
    /\ \E outcome \in {"no_secret_key", "fetch_fails", "ok"} :
          IF outcome = "ok"
          THEN /\ hstep' = "llm"
               /\ UNCHANGED <<response, failure>>
          ELSE Respond(ErrorResponse(500), outcome)
    /\ UNCHANGED <<callVars, pc, genVars, raised, returned, transformVars, classifyVars,
                   handler, analysis, lookups, geminiVars, instanceVars>>

\* PageAnalyzer.analyze_page, lines 88-94: the LLM analysis and its parsing.
AnalyzerInvokeGemini ==
    /\ handler = "analyze_page"
    /\ hstep = "llm"
    /\ \E ok \in BOOLEAN :
          IF ok
          THEN /\ analysis' = "ok"
               /\ hstep' = "analyzer_lookup"
               /\ UNCHANGED <<response, failure>>
          ELSE /\ analysis' = "failed"
               /\ Respond(ErrorResponse(500), "llm")
    /\ UNCHANGED <<callVars, pc, genVars, raised, returned, transformVars, classifyVars,
                   handler, lookups, geminiVars, instanceVars>>

\* PageAnalyzer.analyze_page, lines 96-101 and 118-119: the image lookup
\* inside the analyzer's try; its exception makes the result {'error': ...},
\* which the handler answers with 500 (app.py lines 83-85).
AnalyzerLookup ==
    /\ handler = "analyze_page"
    /\ hstep = "analyzer_lookup"
    /\ \E outcome \in LookupOutcomes :
          /\ lookups' = Append(lookups, outcome)
          /\ IF outcome = "failed"
             THEN Respond(ErrorResponse(500), "analyzer_lookup")
             ELSE /\ hstep' = "handler_lookup"
                  /\ UNCHANGED <<response, failure>>
    /\ UNCHANGED <<callVars, pc, genVars, raised, returned, transformVars, classifyVars,
                   handler, analysis, geminiVars, instanceVars>>

\* app.py lines 87-98: the handler's own image lookup, in a try of its own:
\* character_image_url becomes '' when it raises; then jsonify(result), 200.
AnalyzePageLookup ==
    /\ handler = "analyze_page"
    /\ hstep = "handler_lookup"
    /\ \E outcome \in LookupOutcomes :
          /\ lookups' = Append(lookups, outcome)
          /\ Respond(ResultResponse(CASE outcome = "found" -> "url"
                                      [] outcome = "not_found" -> "None"
                                      [] outcome = "failed" -> ""),
                     "none")
    /\ UNCHANGED <<callVars, pc, genVars, raised, returned, transformVars, classifyVars,
                   handler, analysis, geminiVars, instanceVars>>

(***************************************************************************)
(* GeminiClient.invoke_gemini_with_retry                                   *)
(***************************************************************************)
\* invoke_gemini_with_retry(prompt, model, max_retries): last_error = None.
CallInvokeGeminiWithRetry(m) ==
    /\ pc = "idle"
    /\ entry' = "invoke_gemini_with_retry"
    /\ max_retries' = m
    /\ last_error' = "None"
    /\ pc' = "gemini_loop"
    /\ UNCHANGED <<prompt, duration, aspect_ratio, genVars, raised, returned, transformVars,
                   classifyVars, handlerVars, gemini_calls, sleeps, error_msg, instanceVars>>

\* Mutation of Backoff: the wait follows the last attempt too.
BackoffAfterEveryFailure(a, m) == <<2 ^ a>>

\* Lines 183-185: the time.sleep calls after the failure of attempt a,
\* `if attempt < max_retries - 1: time.sleep(2 ** attempt)`.
Backoff(a, m) == IF a < m - 1 THEN <<2 ^ a>> ELSE <<>>

\* One iteration of the for loop, lines 173-185: invoke_gemini returns
\* (outcome "ok") or raises (outcome is str(e)).
GeminiAttempt(outcome) ==
    /\ pc = "gemini_loop"
    /\ attempt < max_retries
    /\ gemini_calls' = Append(gemini_calls, outcome)
    /\ IF outcome = "ok"
       THEN /\ returned' = [status |-> "response"]
            /\ pc' = "done"
            /\ UNCHANGED <<attempt, last_error, sleeps>>
       ELSE /\ last_error' = outcome
            /\ sleeps' = sleeps \o Backoff(attempt, max_retries)
            /\ attempt' = attempt + 1
            /\ UNCHANGED <<returned, pc>>
    /\ UNCHANGED <<callVars, uploads, image_url, submissions, history, raised,
                   transformVars, classifyVars, handlerVars, error_msg, instanceVars>>

\* Lines 187-190: the loop is over, raise Exception(error_msg).
GeminiExhausted ==
    /\ pc = "gemini_loop"
    /\ ~(attempt < max_retries)
    /\ error_msg' = <<"All ", max_retries, " attempts failed. Last error: ", last_error>>
    /\ raised' = "Exception"
    /\ pc' = "done"
    /\ UNCHANGED <<callVars, genVars, returned, transformVars, classifyVars, handlerVars,
                   gemini_calls, sleeps, last_error, instanceVars>>

(***************************************************************************)
(* Two VideoGenerator instances of one process, each serving a request of  *)
(* its own, their steps interleaved.                                       *)
(***************************************************************************)
\* A step of instance i: the fields it changes; no step of an instance
\* touches the state of the single-call model.
InstanceStep(i, fields) ==
    /\ instances' = [instances EXCEPT ![i] = fields @@ instances[i]]
    /\ UNCHANGED <<callVars, pc, genVars, raised, returned, transformVars, classifyVars,
                   handlerVars, geminiVars>>

\* VideoGenerator(fal_key), lines 14-21: a key that is given is written to
\* os.environ['FAL_KEY']; the object keeps nothing.
Construct(i, fal_key) ==
    /\ instances[i].ipc = "new"
    /\ env_key' = IF fal_key # "" THEN fal_key ELSE env_key
    /\ InstanceStep(i, [key |-> fal_key, ipc |-> "ready"])
    /\ UNCHANGED disk

\* The credential of a fal_client call: fal_client takes it from the
\* environment variable FAL_KEY (comment of line 19); no call passes a key.
CredentialUsed == env_key

\* _upload_image, line 190: fal_client.upload; the handle is a local
\* variable of the call.
InstanceUpload(i) ==
    /\ instances[i].ipc = "ready"
    /\ InstanceStep(i, [credentials |-> Append(instances[i].credentials, CredentialUsed),
                        asset |-> <<"asset of", i>>,
                        ipc |-> "uploaded"])
    /\ UNCHANGED <<env_key, disk>>

\* generate_video_from_image, lines 61-71: fal_client.subscribe with the
\* handle of this call.
InstanceSubscribe(i) ==
    /\ instances[i].ipc = "uploaded"
    /\ InstanceStep(i, [credentials |-> Append(instances[i].credentials, CredentialUsed),
                        submitted |-> instances[i].asset,
                        ipc |-> "generated"])
    /\ UNCHANGED <<env_key, disk>>

\* trim_video, lines 222-224: a temporary file with a name no file has.
InstanceSaveInput(i) ==
    /\ instances[i].ipc = "generated"
    /\ \E name \in 1..MaxTempNames :
          /\ \A f \in disk : f.path # name
          /\ disk' = disk \cup {[path |-> name, by |-> i]}
          /\ InstanceStep(i, [paths |-> instances[i].paths \cup {name},
                              ipc |-> "transforming"])
    /\ UNCHANGED env_key

\* trim_video, lines 262-264: the call unlinks the paths it holds.
InstanceCleanup(i) ==
    /\ instances[i].ipc = "transforming"
    /\ disk' = {f \in disk : f.path \notin instances[i].paths}
    /\ InstanceStep(i, [paths |-> {}, ipc |-> "finished"])
    /\ UNCHANGED env_key

NextInstances ==
    \/ \E i \in Instances, fal_key \in FalKeys : Construct(i, fal_key)
    \/ \E i \in Instances : InstanceUpload(i)
    \/ \E i \in Instances : InstanceSubscribe(i)
    \/ \E i \in Instances : InstanceSaveInput(i)
    \/ \E i \in Instances : InstanceCleanup(i)

SpecInstances == Init /\ [][NextInstances]_vars

(***************************************************************************)
(* The classifier on its own.                                              *)
(***************************************************************************)
InitClassify == Idle /\ IsErrorString(err) /\ parsed = NotParsed

Classify ==
    /\ parsed = NotParsed
    /\ parsed' = ParseFalError(err)
    /\ UNCHANGED <<callVars, pc, genVars, raised, returned, transformVars, err, serviceVars>>

NextClassify == Classify

SpecClassify == InitClassify /\ [][NextClassify]_vars

Next ==
    \/ \E d \in DurationsTried, a \in BackendAspectRatios, m \in (-1)..MaxRetries :
          CallGenerateVideoFromImage("custom prompt", d, a, m)
    \/ \E p \in Prompts, a \in AspectRatios : CallGenerateCharacterVideo(p, a)
    \/ CallGenerateLogoVideo
    \/ UploadImage
    \/ \E outcome \in BackendOutcomes : Attempt(outcome)
    \/ LoopExhausted
    \/ \E st \in StartTimes, sq \in BOOLEAN : CallTrimVideo(st, sq)
    \/ \E st \in StartTimes : CallAddLetterboxToSquare(st)
    \/ PostProcess
    \/ Download
    \/ SaveInput
    \/ ClipStep
    \/ MakeOutput
    \/ Encode
    \/ ReadBack
    \/ Cleanup
    \/ \E m \in 0..MaxRetries : CallInvokeGeminiWithRetry(m)
    \/ \E outcome \in GeminiErrors \cup {"ok"} : GeminiAttempt(outcome)
    \/ GeminiExhausted
    \/ \E page_url \in BOOLEAN, character_image_url \in BOOLEAN, p \in Prompts :
          GenerateVideosRequest(page_url, character_image_url, p)
    \/ GenerateVideosScrape
    \/ GenerateVideosPrepare
    \/ GenerateVideosFetchImage
    \/ GenerateVideosPreprocess
    \/ GenerateVideosRespond
    \/ \E page_url \in BOOLEAN : AnalyzePageRequest(page_url)
    \/ AnalyzerFetchPage
    \/ AnalyzerInvokeGemini
    \/ AnalyzerLookup
    \/ AnalyzePageLookup

Spec == Init /\ [][Next]_vars

(***************************************************************************)
(* Properties of generate_video_from_image and generate_character_video,   *)
(* checked under Spec.                                                     *)
(***************************************************************************)
InGenerate ==
    entry \in {"generate_video_from_image", "generate_character_video",
               "generate_logo_video"}

UploadDone == pc \in {"loop", "post", "transform", "done"}

\* C1: for every max_retries >= 1 and every sequence of backend outcomes, one
\* call of generate_video_from_image makes exactly one upload call, however
\* many generation attempts run: never more than one, and exactly one from
\* the moment the upload step is over.
C1_UploadExactlyOnce ==
    (InGenerate /\ max_retries >= 1) =>
        /\ uploads <= 1
        /\ (UploadDone => uploads = 1)

\* C1 witness: a finished call that submitted several attempts, one upload.
C1_Witness ==
    /\ InGenerate
    /\ max_retries >= 2
    /\ pc = "done"
    /\ Len(submissions) >= 2
    /\ uploads = 1

AllPolicyViolations ==
    \A k \in 1..Len(history) : history[k].class = "content_policy_violation"

\* C2: if every generation attempt failed with an error classified as a
\* content-policy violation, the finished call has submitted exactly
\* max_retries attempts and raised ContentPolicyViolationError, and a call in
\* progress has submitted fewer than max_retries; with max_retries = 1 there
\* is a single attempt and no retry.
C2_PolicyViolationExhaustsRetries ==
    (InGenerate /\ max_retries >= 1 /\ image_url # "none" /\ AllPolicyViolations) =>
        /\ (pc = "done" =>
               /\ Len(submissions) = max_retries
               /\ Len(history) = max_retries
               /\ raised = "ContentPolicyViolationError"
               /\ returned = NoReturn)
        /\ (pc # "done" => pc = "loop" /\ Len(submissions) < max_retries)
        /\ (max_retries = 1 => Len(submissions) <= 1)

\* C2 witness: retries were made and all of them met a policy violation.
C2_Witness ==
    /\ InGenerate
    /\ max_retries >= 2
    /\ pc = "done"
    /\ AllPolicyViolations
    /\ Len(submissions) = max_retries
    /\ raised = "ContentPolicyViolationError"

\* C3: if attempt k failed with an error classified as unknown, the call
\* raised VideoGenerationError at once: attempt k is the last one submitted,
\* whatever its index.
C3_UnknownFailsImmediately ==
    \A k \in 1..Len(history) :
        history[k].class = "unknown" =>
            /\ k = Len(history)
            /\ Len(submissions) = k
            /\ pc = "done"
            /\ raised = "VideoGenerationError"
            /\ returned = NoReturn

\* C3 witness: an unknown error on an attempt that is not the last allowed.
C3_Witness ==
    /\ Len(history) >= 2
    /\ Len(history) < max_retries
    /\ history[Len(history)].class = "unknown"
    /\ raised = "VideoGenerationError"

\* C4: if the backend answered an attempt with a response that has no video
\* URL, the call failed fatally on that attempt and submitted no other,
\* whatever the response holds and however many attempts remain.
C4_MissingUrlIsFatal ==
    \A k \in 1..Len(history) :
        history[k].met \in {"result_no_url", "result_video_none"} =>
            /\ k = Len(history)
            /\ Len(submissions) = k
            /\ pc = "done"
            /\ raised # "none"

\* C5: when a transform (trim_video or add_letterbox_to_square) has returned
\* or raised, at whatever step, no temporary file it created is on disk.
C5_NoTemporaryFileRemains ==
    (tfun # "none" /\ pc = "done") => files = {}

\* C10: every finished generate_character_video call either returned a result
\* with video_data, status and trimmed, or raised ContentPolicyViolationError
\* or VideoGenerationError; no other exception reaches the caller.
C10_OnlyTypedErrors ==
    (entry = "generate_character_video" /\ pc = "done") =>
        \/ /\ raised = "none"
           /\ returned = [status |-> "success", video_data |-> "bytes", trimmed |-> TRUE]
        \/ /\ raised \in {"ContentPolicyViolationError", "VideoGenerationError"}
           /\ returned = NoReturn

\* C11: in a generate_character_video call with aspect_ratio "1:1", every
\* payload submitted to the backend carries aspect_ratio "9:16" and the
\* post-process runs with square_crop true; with "16:9" or "9:16" every
\* payload carries the requested ratio.
C11_AspectRatioRemap ==
    entry = "generate_character_video" =>
        /\ \A k \in 1..Len(submissions) :
               submissions[k].aspect_ratio =
                   (IF aspect_ratio = "1:1" THEN "9:16" ELSE aspect_ratio)
        /\ (aspect_ratio = "1:1" =>
               \A k \in 1..Len(transform_calls) : transform_calls[k].square_crop)
        /\ ((aspect_ratio = "1:1" /\ pc = "transform") => square_crop)

\* C11 witness: a "1:1" request was submitted and is being post-processed.
C11_Witness ==
    /\ entry = "generate_character_video"
    /\ aspect_ratio = "1:1"
    /\ Len(submissions) >= 1
    /\ submissions[1].aspect_ratio = "9:16"
    /\ pc = "transform"
    /\ square_crop

GenerationSucceeded ==
    /\ history # <<>>
    /\ history[Len(history)].class = "success"

\* C12: in generate_character_video the transform is called at most once and
\* only after a generation attempt succeeded, exactly once from then on, as
\* trim_video (never the letterbox) with start_time 0.3 (3 tenths) and
\* square_crop true exactly when the requested ratio is "1:1"; a returned
\* result carries trimmed = true.
C12_TransformOnceAfterSuccess ==
    entry = "generate_character_video" =>
        /\ Len(transform_calls) <= 1
        /\ (transform_calls # <<>> =>
               /\ GenerationSucceeded
               /\ transform_calls[1] =
                      [fn |-> "trim_video", start_time |-> 3,
                       square_crop |-> (aspect_ratio = "1:1")])
        /\ ((GenerationSucceeded /\ pc \in {"transform", "done"}) =>
               Len(transform_calls) = 1)
        /\ (returned # NoReturn =>
               /\ Len(transform_calls) = 1
               /\ returned.trimmed = TRUE)

\* C12 witness: a "1:1" character video was returned after its transform.
C12_Witness ==
    /\ entry = "generate_character_video"
    /\ aspect_ratio = "1:1"
    /\ pc = "done"
    /\ returned # NoReturn
    /\ Len(transform_calls) = 1
    /\ transform_calls[1].square_crop

\* C13: within one generate_video_from_image call every attempt submits the
\* same payload: the handle the upload returned, the prompt, the duration
\* and the aspect ratio of the call.
C13_SamePayloadEveryAttempt ==
    InGenerate =>
        \A k \in 1..Len(submissions) :
            /\ submissions[k] = submissions[1]
            /\ submissions[k].image_url = image_url
            /\ submissions[k].image_url # "none"
            /\ submissions[k].prompt = prompt
            /\ submissions[k].duration = duration

\* C13 witness: a call that made two retries.
C13_Witness ==
    /\ entry = "generate_video_from_image"
    /\ Len(submissions) >= 3
    /\ submissions[3] = submissions[1]

UploadFailed == InGenerate /\ pc \notin {"idle", "upload"} /\ image_url = "none"

\* C14: if the upload failed, the call is over with an exception, after one
\* upload call and without any generation attempt submitted.
C14_UploadFailureIsFatal ==
    UploadFailed =>
        /\ pc = "done"
        /\ uploads = 1
        /\ submissions = <<>>
        /\ history = <<>>
        /\ raised # "none"
        /\ returned = NoReturn

\* C14 witness: a call allowed several attempts whose upload failed.
C14_Witness ==
    /\ UploadFailed
    /\ max_retries >= 2
    /\ pc = "done"
    /\ raised = "Exception"

\* C15: with square_crop, a frame of width w and height h is cropped to a
\* square of side min(w, h) at x = (w - min(w,h))/2, y = (h - min(w,h))/2
\* (offsets compared doubled), inside the frame; 1080x1920 gives side 1080
\* at x = 0, y = 420 and 1920x1080 gives side 1080.
C15_CenteredSquareCrop ==
    (tfun = "trim_video" /\ square_crop /\ crop # NoCrop) =>
        LET w == frame[1]
            h == frame[2]
            side == CHOOSE m \in {w, h} : m <= w /\ m <= h
        IN  /\ crop.width = side /\ crop.height = side
            /\ crop.x1_twice = w - side
            /\ crop.y1_twice = h - side
            /\ crop.x1_twice >= 0 /\ crop.x1_twice + 2 * crop.width <= 2 * w
            /\ crop.y1_twice >= 0 /\ crop.y1_twice + 2 * crop.height <= 2 * h
            /\ (frame = <<1080, 1920>> =>
                   crop = [x1_twice |-> 0, y1_twice |-> 2 * 420,
                           width |-> 1080, height |-> 1080])
            /\ (frame = <<1920, 1080>> => crop.width = 1080 /\ crop.height = 1080)

\* C15 witness: the portrait HD frame was cropped at y = 420.
C15_Witness ==
    /\ tfun = "trim_video"
    /\ square_crop
    /\ frame = <<1080, 1920>>
    /\ crop.width = 1080
    /\ crop.y1_twice = 840

\* C18: every payload submitted carries a duration of 4, 8 or 12, and a
\* generate_video_from_image call with another duration ends with an
\* exception and without any attempt submitted.
C18_DurationSupported ==
    /\ \A k \in 1..Len(submissions) : submissions[k].duration \in {4, 8, 12}
    /\ (InGenerate /\ duration \notin {4, 8, 12} /\ pc \notin {"idle", "upload"}) =>
           /\ submissions = <<>>
           /\ pc = "done"
           /\ raised # "none"

\* The call is over and no iteration of the loop was running when it ended:
\* the loop variable had run through range(max_retries), so the exception
\* is the one raised after the loop (line 123).
FallbackReached ==
    /\ InGenerate
    /\ image_url # "none"
    /\ pc = "done"
    /\ raised # "none"
    /\ Len(submissions) = attempt

\* C21: with max_retries >= 1 a call whose upload succeeded makes at most
\* max_retries submissions, one after the other (each has its outcome before
\* the next is made, and the k-th is made in iteration k - 1), and ends in
\* the iteration of its last submission, so the raise after the loop is
\* never reached; that raise is reached only with max_retries <= 0, after
\* one upload and no submission.
C21_EndsInsideLoop ==
    /\ (InGenerate /\ max_retries >= 1 /\ image_url # "none") =>
           /\ Len(submissions) <= max_retries
           /\ Len(history) = Len(submissions)
           /\ (pc = "loop" => attempt = Len(submissions) /\ attempt < max_retries)
           /\ (pc \in {"post", "transform", "done"} =>
                  /\ submissions # <<>>
                  /\ attempt = Len(submissions) - 1)
           /\ ~FallbackReached
    /\ FallbackReached =>
           /\ max_retries <= 0
           /\ uploads = 1
           /\ submissions = <<>>
           /\ raised = "VideoGenerationError"

\* C21 witness: a call that ended in its last allowed iteration, the third.
C21_Witness ==
    /\ entry = "generate_video_from_image"
    /\ max_retries = 3
    /\ pc = "done"
    /\ attempt = 2
    /\ Len(submissions) = 3
    /\ raised # "none"

\* C23: when trim_video or add_letterbox_to_square is over, the input
\* temporary file it created is not on disk, whatever the exit path; when it
\* returned the bytes, no temporary file of the call is on disk.
C23_InputFileAlwaysDeleted ==
    (tfun # "none" /\ pc = "done") =>
        /\ "tmp_input" \notin files
        /\ (returned # NoReturn => files = {})

\* C22: a generate_character_video or generate_logo_video call (one made by
\* the generate-videos handler included) runs generate_video_from_image
\* with max_retries 1: it submits at most one attempt, exactly one once the
\* loop is left after a successful upload, and a content-policy violation
\* on that attempt ends the call with ContentPolicyViolationError.
C22_NoRetryThroughWrappers ==
    (entry \in {"generate_character_video", "generate_logo_video"}
         \/ handler = "generate_videos") =>
        /\ (entry # "none" => max_retries = 1)
        /\ Len(submissions) <= 1
        /\ ((image_url # "none" /\ pc \in {"post", "transform", "done"}) =>
               Len(submissions) = 1)
        /\ \A k \in 1..Len(history) :
               history[k].class = "content_policy_violation" =>
                   /\ k = 1
                   /\ Len(submissions) = 1
                   /\ pc = "done"
                   /\ raised = "ContentPolicyViolationError"

\* C22 witness: a logo video met a content-policy violation on its attempt.
C22_Witness ==
    /\ entry = "generate_logo_video"
    /\ pc = "done"
    /\ Len(submissions) = 1
    /\ history[1].class = "content_policy_violation"
    /\ raised = "ContentPolicyViolationError"

(***************************************************************************)
(* Properties of the API handlers, checked under Spec.                     *)
(***************************************************************************)
\* C16: when the LLM analysis of a page succeeded, the analyze-page handler
\* answers 200, whatever the character-image lookups did, and with an empty
\* character_image_url when the lookup failed.
C16_LookupFailureDegrades ==
    (handler = "analyze_page" /\ hstep = "responded" /\ analysis = "ok") =>
        /\ response.status = 200
        /\ ((\E k \in 1..Len(lookups) : lookups[k] = "failed") =>
               response.character_image_url = "")

\* C19: the generate-videos handler answers ContentPolicyViolationError, and
\* nothing else, with 400, error_type content_policy_violation and the
\* suggestions; it answers a failure of the image fetch, the preprocessing,
\* the generation or the post-processing that is no
\* ContentPolicyViolationError with 500 and no error_type; it answers 200
\* only when generate_character_video returned.
C19_PolicyViolationDistinct ==
    (handler = "generate_videos" /\ hstep = "responded") =>
        /\ (raised = "ContentPolicyViolationError" =>
               /\ response.status = 400
               /\ response.error_type = "content_policy_violation"
               /\ response.suggestions)
        /\ ((response.error_type # "none" \/ response.suggestions) =>
               raised = "ContentPolicyViolationError")
        /\ ((/\ failure \in {"image_fetch", "preprocess", "generation", "post_processing"}
             /\ raised # "ContentPolicyViolationError") =>
               /\ response.status = 500
               /\ response.error_type = "none"
               /\ ~response.suggestions)
        /\ (raised \notin {"none", "ContentPolicyViolationError"} => response.status = 500)
        /\ (response.status = 200 =>
               /\ entry = "generate_character_video"
               /\ pc = "done"
               /\ raised = "none"
               /\ returned # NoReturn)

\* C19 witness: a content-policy violation was answered by the handler.
C19_Witness ==
    /\ handler = "generate_videos"
    /\ hstep = "responded"
    /\ raised = "ContentPolicyViolationError"
    /\ response.status = 400
    /\ response.suggestions

(***************************************************************************)
(* Properties of parallel VideoGenerator instances, checked under          *)
(* SpecInstances.                                                          *)
(***************************************************************************)
\* C17: instances running in parallel share no mutable state: every backend
\* call of an instance constructed with a key used that key, every
\* submission used the handle of the instance's own upload, and every
\* temporary file on disk is held by the instance that created it and by
\* no other.
C17_InstancesShareNothing ==
    \A i \in Instances :
        /\ (instances[i].key \notin {"none", ""} =>
               \A k \in 1..Len(instances[i].credentials) :
                   instances[i].credentials[k] = instances[i].key)
        /\ (instances[i].submitted # "none" =>
               instances[i].submitted = instances[i].asset)
        /\ \A f \in disk : f.path \in instances[f.by].paths
        /\ \A j \in Instances \ {i} : instances[i].paths \cap instances[j].paths = {}

(***************************************************************************)
(* Properties of invoke_gemini_with_retry, checked under Spec.             *)
(***************************************************************************)
GeminiFailures == {k \in 1..Len(gemini_calls) : gemini_calls[k] # "ok"}

\* C20: invoke_gemini_with_retry makes at most max_retries invoke_gemini
\* calls; a successful call is the last one and its response is returned;
\* the k-th failed attempt (counted from 1) is followed by a wait of
\* 2^(k-1) seconds unless it is attempt number max_retries; the exception is
\* raised only after max_retries failed calls and carries the last error.
C20_GeminiRetry ==
    entry = "invoke_gemini_with_retry" =>
        /\ Len(gemini_calls) <= max_retries
        /\ \A k \in 1..Len(gemini_calls) :
               gemini_calls[k] = "ok" =>
                   /\ k = Len(gemini_calls)
                   /\ pc = "done"
                   /\ returned = [status |-> "response"]
                   /\ raised = "none"
        /\ LET waits == {k \in GeminiFailures : k < max_retries}
           IN  /\ Len(sleeps) = Cardinality(waits)
               /\ \A k \in 1..Len(sleeps) : sleeps[k] = 2 ^ (k - 1)
        /\ (raised # "none" =>
               /\ Len(gemini_calls) = max_retries
               /\ GeminiFailures = 1..max_retries
               /\ returned = NoReturn
               /\ error_msg[2] = max_retries
               /\ error_msg[4] = IF max_retries = 0 THEN "None"
                                 ELSE gemini_calls[max_retries])
        /\ ((pc = "done" /\ raised = "none") =>
               /\ gemini_calls # <<>>
               /\ gemini_calls[Len(gemini_calls)] = "ok")

\* C20 witness: three attempts failed, with two waits of 1 and 2 seconds, and
\* the exception reports the error of the third.
C20_Witness ==
    /\ entry = "invoke_gemini_with_retry"
    /\ max_retries = 3
    /\ raised = "Exception"
    /\ sleeps = <<1, 2>>
    /\ gemini_calls = <<"timeout", "timeout", "HTTP 500">>
    /\ error_msg[4] = "HTTP 500"

(***************************************************************************)
(* Properties of _parse_fal_error, checked under SpecClassify.             *)
(***************************************************************************)
\* The keyword set of the classifier's specification, as lower-case atoms.
SpecKeywords ==
    {<<"content", " ", "policy">>,
     <<"policy", " ", "violation">>,
     <<"nsfw">>,
     <<"not", " ", "safe", " ", "for", " ", "work">>,
     <<"inappropriate", " ", "content">>,
     <<"safety", " ", "filter">>,
     <<"safety", " ", "system">>,
     <<"content", "_", "policy", "_", "violation">>}

HasSpecKeyword(s) == \E kw \in SpecKeywords : Contains(Lower(s), kw)

\* The string form parses (json.loads) as a non-empty JSON array.
ParsesAsNonEmptyArray(s) == JsonLoads(s) /\ LoadsNonEmptyList(s)

SomeNsfwDetected == <<"Some ", "nsfw", " detected">>

\* C6: an opaque error string (no parseable non-empty JSON array) whose
\* lower-cased text contains a keyword of the set is classified as a
\* content-policy violation; "Some nsfw detected" is.
C6_KeywordsArePolicyViolations ==
    (parsed # NotParsed /\ ~ParsesAsNonEmptyArray(err)) =>
        /\ (HasSpecKeyword(err) =>
               parsed.raises = "none" /\ parsed.type = "content_policy_violation")
        /\ (err = SomeNsfwDetected => parsed.type = "content_policy_violation")

\* C7: an error string that parses as a non-empty JSON array is classified
\* by the type and msg of its first element, taken verbatim, whatever the
\* later elements are.
C7_FirstElementDecides ==
    (parsed # NotParsed /\ ParsesAsNonEmptyArray(err)) =>
        LET first == FirstElement(Trim(err))
        IN  /\ parsed.raises = "none"
            /\ IsDict(first) =>
                   /\ parsed.type = DictGet(first, "type")
                   /\ parsed.msg = DictGet(first, "msg")

\* C8: an error string that matches neither the structured path nor the
\* keyword set is classified unknown with the raw text as its message, so
\* nothing outside the keyword set is a content-policy violation.
C8_NoKeywordIsUnknown ==
    (parsed # NotParsed /\ ~ParsesAsNonEmptyArray(err) /\ ~HasSpecKeyword(err)) =>
        parsed = Classified("unknown", err)

\* C9: the classifier never raises: it returns a classification for every
\* error string, a JSON array whose first element is no object included.
C9_ClassifierNeverThrows ==
    parsed # NotParsed => parsed.raises = "none"

====
